---- MODULE Spec2Model ----
(***************************************************************************)
(* EnergyPSA: the relational store written by populate_db.py and the       *)
(* analysis run of PSA.py (load -> validate -> initialise -> solve).       *)
(*                                                                         *)
(* Conventions of the model                                                *)
(*   - A surface name is the sequence of its "_"-separated words:          *)
(*     "Wind_Farm_SVC" is <<"Wind","Farm","SVC">>.  f"SVC_{name}" prepends *)
(*     the word "SVC", g.startswith('SVC_') looks at the first word, and   *)
(*     "Solar" in g looks for the word.                                    *)
(*   - Reals are scaled integers: per-unit quantities (voltage, tap ratio, *)
(*     transformer x and r, efficiencies) and ohm/km in hundredths; MW,    *)
(*     MVAr, MVA, kV, km, hours, degrees, coordinates in units.            *)
(*   - NaN is the value pandas holds where a column was never set for a    *)
(*     component; every comparison with NaN is false.                      *)
(***************************************************************************)
EXTENDS Integers, Sequences, FiniteSets, TLC

VARIABLES
    tables,         \* TRUE once create_tables has created the schema
    db,             \* the store: one sequence of rows per table, in rowid order
    pc,             \* position of the running program ("idle": none running)
    edits,          \* writes to the store made by other clients
    bus_name_to_id, \* populate_db.main's local mapping
    conn,           \* PSA.main's connection: "none", "open", "closed"
    bus_id_to_name, \* load_network_from_db's local mapping
    net,            \* load_network_from_db's local network under construction
    n,              \* PSA.main's network (Unbound until the loader returns)
    issues,         \* PSA.main's validation findings
    err,            \* the exception in flight or raised ("none" when none)
    solves,         \* number of calls of n.pf()
    extracted       \* TRUE once the result printing/plotting has run

vars == <<tables, db, pc, edits, bus_name_to_id, conn, bus_id_to_name,
          net, n, issues, err, solves, extracted>>

-----------------------------------------------------------------------------
(* Bounds *)

\* writes by other clients of the store in one behaviour
MaxEdits == 2

\* the rows of a table, counted from its first, that other clients rewrite
MaxEditRow == 2

-----------------------------------------------------------------------------
(* Values *)

\* A float column that may hold NaN: <<>> is NaN, <<v>> is the number v
NaN == <<>>
Num(v) == <<v>>

\* PSA.main's variable n before the loader has returned
Unbound == [unbound |-> TRUE]

Abs(i) == IF i < 0 THEN -i ELSE i

\* float arithmetic and comparisons: NaN propagates, and every comparison
\* with NaN is false
FAbs(a) == IF a = NaN THEN NaN ELSE Num(Abs(a[1]))
FSub(a, b) == IF a = NaN \/ b = NaN THEN NaN ELSE Num(a[1] - b[1])
FMul(k, a) == IF a = NaN THEN NaN ELSE Num(k * a[1])
FLt(a, b) == a # NaN /\ b # NaN /\ a[1] < b[1]
FGt(a, b) == a # NaN /\ b # NaN /\ a[1] > b[1]

\* str.startswith('SVC_')
StartsWithSVC(name) == Len(name) >= 2 /\ name[1] = "SVC"

\* "Solar" in name, "Wind" in name
Contains(name, word) == \E i \in 1..Len(name) : name[i] = word

\* f"SVC_{name}"
SvcName(name) == <<"SVC">> \o name

-----------------------------------------------------------------------------
(* populate_db.py: the sample data *)

sample_buses == <<
    [name |-> <<"Substation", "A">>, v_nom_kv |-> 110, type |-> "b", x_coord |-> 0, y_coord |-> 0],
    [name |-> <<"City", "Center">>, v_nom_kv |-> 110, type |-> "b", x_coord |-> 5, y_coord |-> 2],
    [name |-> <<"Industrial", "Park">>, v_nom_kv |-> 110, type |-> "b", x_coord |-> 8, y_coord |-> -1],
    [name |-> <<"Rural", "Town">>, v_nom_kv |-> 110, type |-> "b", x_coord |-> -3, y_coord |-> 4],
    [name |-> <<"Wind", "Farm", "Connection">>, v_nom_kv |-> 110, type |-> "b", x_coord |-> -6, y_coord |-> -2] >>

sample_lines == <<
    [name |-> <<"Line", "A", "City">>, from_bus_name |-> <<"Substation", "A">>, to_bus_name |-> <<"City", "Center">>,
     length_km |-> 20, r_ohm_per_km |-> 10, x_ohm_per_km |-> 30, s_nom_mva |-> 150],
    [name |-> <<"Line", "City", "Industrial">>, from_bus_name |-> <<"City", "Center">>, to_bus_name |-> <<"Industrial", "Park">>,
     length_km |-> 15, r_ohm_per_km |-> 15, x_ohm_per_km |-> 25, s_nom_mva |-> 120],
    [name |-> <<"Line", "A", "Rural">>, from_bus_name |-> <<"Substation", "A">>, to_bus_name |-> <<"Rural", "Town">>,
     length_km |-> 30, r_ohm_per_km |-> 8, x_ohm_per_km |-> 20, s_nom_mva |-> 180],
    [name |-> <<"Line", "Rural", "Wind">>, from_bus_name |-> <<"Rural", "Town">>, to_bus_name |-> <<"Wind", "Farm", "Connection">>,
     length_km |-> 10, r_ohm_per_km |-> 20, x_ohm_per_km |-> 40, s_nom_mva |-> 100] >>

sample_generators == <<
    [name |-> <<"Thermal", "Plant", "A">>, bus_name |-> <<"Substation", "A">>, p_nom_mw |-> 500,
     marginal_cost_eur_per_mwh |-> 25, control_type |-> "Slack"],
    [name |-> <<"Solar", "Farm", "Rural">>, bus_name |-> <<"Rural", "Town">>, p_nom_mw |-> 80,
     marginal_cost_eur_per_mwh |-> 10, control_type |-> "PQ"],
    [name |-> <<"Wind", "Turbines">>, bus_name |-> <<"Wind", "Farm", "Connection">>, p_nom_mw |-> 120,
     marginal_cost_eur_per_mwh |-> 5, control_type |-> "PQ"] >>

sample_loads == <<
    [name |-> <<"City", "Load", "1">>, bus_name |-> <<"City", "Center">>, p_set_mw |-> 70, q_set_mvar |-> 20],
    [name |-> <<"Industrial", "Load", "1">>, bus_name |-> <<"Industrial", "Park">>, p_set_mw |-> 100, q_set_mvar |-> 30],
    [name |-> <<"Rural", "Load", "1">>, bus_name |-> <<"Rural", "Town">>, p_set_mw |-> 30, q_set_mvar |-> 10] >>

sample_transformers == <<
    [name |-> <<"MainSubstation", "Transformer">>, from_bus_name |-> <<"Substation", "A">>, to_bus_name |-> <<"City", "Center">>,
     s_nom_mva |-> 200, tap_ratio |-> 100, phase_shift |-> 0, vector_group |-> "Dyn11"],
    [name |-> <<"Industrial", "Transformer">>, from_bus_name |-> <<"City", "Center">>, to_bus_name |-> <<"Industrial", "Park">>,
     s_nom_mva |-> 150, tap_ratio |-> 95, phase_shift |-> -30, vector_group |-> "Yyn0"] >>

sample_storage_units == <<
    [name |-> <<"Industrial", "Battery">>, bus_name |-> <<"Industrial", "Park">>, p_nom_mw |-> 50, max_hours |-> 4,
     efficiency_store |-> 95, efficiency_dispatch |-> 95, cyclic_soc |-> TRUE],
    [name |-> <<"Grid", "Scale", "Battery">>, bus_name |-> <<"City", "Center">>, p_nom_mw |-> 100, max_hours |-> 6,
     efficiency_store |-> 92, efficiency_dispatch |-> 92, cyclic_soc |-> TRUE] >>

sample_hvdc_links == <<
    [name |-> <<"Offshore", "Wind", "Link">>, from_bus_name |-> <<"Wind", "Farm", "Connection">>, to_bus_name |-> <<"City", "Center">>,
     p_nom_mw |-> 400, efficiency |-> 97, p_min_pu |-> -100, p_max_pu |-> 100],
    [name |-> <<"Industrial", "DC", "Link">>, from_bus_name |-> <<"Substation", "A">>, to_bus_name |-> <<"Industrial", "Park">>,
     p_nom_mw |-> 300, efficiency |-> 98, p_min_pu |-> 0, p_max_pu |-> 100] >>

sample_svcs == <<
    [name |-> <<"Industrial", "SVC">>, bus_name |-> <<"Industrial", "Park">>, q_nom_mvar |-> 100,
     q_min_mvar |-> -100, q_max_mvar |-> 100, v_set_pu |-> 102],
    [name |-> <<"Wind", "Farm", "SVC">>, bus_name |-> <<"Wind", "Farm", "Connection">>, q_nom_mvar |-> 150,
     q_min_mvar |-> -150, q_max_mvar |-> 150, v_set_pu |-> 100] >>

-----------------------------------------------------------------------------
(* populate_db.py: the schema and the inserts *)

TableNames == {"Buses", "Lines", "Generators", "Loads", "Transformers",
               "StorageUnits", "HVDC_Links", "SVCs"}

\* the store before create_tables and right after it: no rows
EmptyStore == [t \in TableNames |-> <<>>]

\* name TEXT UNIQUE NOT NULL
NameTaken(table, name) == \E i \in 1..Len(table) : table[i].name = name

\* the CHECK constraints of the schema; a table without one admits every row
CheckOk(data_type, row) ==
    CASE data_type = "Buses" -> row.type \in {"b", "l"}
      [] data_type = "Generators" -> row.control_type \in {"PQ", "Slack"}
      [] OTHER -> TRUE

\* id INTEGER PRIMARY KEY AUTOINCREMENT (no row is ever deleted)
NextId(table) == Len(table) + 1

\* an insert that overwrites the row of a name already taken
InsertOrReplace(store, data_type, row) ==
    IF ~CheckOk(data_type, row) THEN store
    ELSE IF NameTaken(store[data_type], row.name)
    THEN [store EXCEPT ![data_type] = [i \in 1..Len(@) |->
             IF @[i].name = row.name THEN [id |-> @[i].id] @@ row ELSE @[i]]]
    ELSE [store EXCEPT ![data_type] = Append(@, [id |-> NextId(@)] @@ row)]

\* INSERT OR IGNORE of one row: a row that breaks UNIQUE or CHECK is dropped
InsertOrIgnore(store, data_type, row) ==
    IF NameTaken(store[data_type], row.name) \/ ~CheckOk(data_type, row)
    THEN store
    ELSE [store EXCEPT ![data_type] =
             Append(@, [id |-> NextId(@)] @@ row)]

\* the tuple insert_data binds for one dictionary of the sample data
RowOf(data_type, d, map) ==
    CASE data_type = "Buses" ->
            [name |-> d.name, v_nom_kv |-> d.v_nom_kv, type |-> d.type,
             x_coord |-> d.x_coord, y_coord |-> d.y_coord]
      [] data_type = "Lines" ->
            [name |-> d.name, from_bus_id |-> map[d.from_bus_name], to_bus_id |-> map[d.to_bus_name],
             length_km |-> d.length_km, r_ohm_per_km |-> d.r_ohm_per_km,
             x_ohm_per_km |-> d.x_ohm_per_km, s_nom_mva |-> d.s_nom_mva]
      [] data_type = "Generators" ->
            [name |-> d.name, bus_id |-> map[d.bus_name], p_nom_mw |-> d.p_nom_mw,
             marginal_cost_eur_per_mwh |-> d.marginal_cost_eur_per_mwh,
             control_type |-> d.control_type]
      [] data_type = "Loads" ->
            [name |-> d.name, bus_id |-> map[d.bus_name], p_set_mw |-> d.p_set_mw,
             q_set_mvar |-> d.q_set_mvar]
      [] data_type = "Transformers" ->
            [name |-> d.name, from_bus_id |-> map[d.from_bus_name], to_bus_id |-> map[d.to_bus_name],
             s_nom_mva |-> d.s_nom_mva, tap_ratio |-> d.tap_ratio,
             phase_shift |-> d.phase_shift, vector_group |-> d.vector_group]
      [] data_type = "StorageUnits" ->
            [name |-> d.name, bus_id |-> map[d.bus_name], p_nom_mw |-> d.p_nom_mw,
             max_hours |-> d.max_hours, efficiency_store |-> d.efficiency_store,
             efficiency_dispatch |-> d.efficiency_dispatch, cyclic_soc |-> d.cyclic_soc]
      [] data_type = "HVDC_Links" ->
            [name |-> d.name, from_bus_id |-> map[d.from_bus_name], to_bus_id |-> map[d.to_bus_name],
             p_nom_mw |-> d.p_nom_mw, efficiency |-> d.efficiency,
             p_min_pu |-> d.p_min_pu, p_max_pu |-> d.p_max_pu]
      [] data_type = "SVCs" ->
            [name |-> d.name, bus_id |-> map[d.bus_name], q_nom_mvar |-> d.q_nom_mvar,
             q_min_mvar |-> d.q_min_mvar, q_max_mvar |-> d.q_max_mvar,
             v_set_pu |-> d.v_set_pu]

\* insert_data(conn, data_type, data_list, bus_name_to_id): the store afterwards
RECURSIVE insert_data(_, _, _, _)
insert_data(store, data_type, data_list, map) ==
    IF data_list = <<>> THEN store
    ELSE insert_data(InsertOrIgnore(store, data_type, RowOf(data_type, Head(data_list), map)),
                     data_type, Tail(data_list), map)

\* get_bus_name_to_id_mapping(conn): {name: id for id, name in rows}
get_bus_name_to_id_mapping(store) ==
    [nm \in {store.Buses[i].name : i \in 1..Len(store.Buses)} |->
        store.Buses[CHOOSE i \in 1..Len(store.Buses) : store.Buses[i].name = nm].id]

-----------------------------------------------------------------------------
(* The initial state: no schema, no rows, no program running *)

Init ==
    /\ tables = FALSE
    /\ db = EmptyStore
    /\ pc = "idle"
    /\ edits = 0
    /\ bus_name_to_id = <<>>
    /\ conn = "none"
    /\ bus_id_to_name = <<>>
    /\ net = Unbound
    /\ n = Unbound
    /\ issues = <<>>
    /\ err = "none"
    /\ solves = 0
    /\ extracted = FALSE

psa_vars == <<conn, bus_id_to_name, net, n, issues, err, solves, extracted>>

-----------------------------------------------------------------------------
(* populate_db.main, one action per statement *)

\* the inserts that follow the bus mapping, in the order main makes them
PopulateOrder == <<"Lines", "Generators", "Loads", "Transformers",
                   "StorageUnits", "HVDC_Links", "SVCs">>

sample_data(data_type) ==
    CASE data_type = "Buses" -> sample_buses
      [] data_type = "Lines" -> sample_lines
      [] data_type = "Generators" -> sample_generators
      [] data_type = "Loads" -> sample_loads
      [] data_type = "Transformers" -> sample_transformers
      [] data_type = "StorageUnits" -> sample_storage_units
      [] data_type = "HVDC_Links" -> sample_hvdc_links
      [] data_type = "SVCs" -> sample_svcs

\* conn = create_connection(DB_NAME); if conn: ... else: print("... failed.")
populate_create_connection ==
    /\ pc = "idle"
    /\ \/ pc' = "pop_create_tables"
       \/ pc' = "idle"
    /\ UNCHANGED <<tables, db, edits, bus_name_to_id, psa_vars>>

\* create_tables(conn): CREATE TABLE IF NOT EXISTS keeps existing rows
create_tables ==
    /\ pc = "pop_create_tables"
    /\ tables' = TRUE
    /\ pc' = "pop_Buses"
    /\ UNCHANGED <<db, edits, bus_name_to_id, psa_vars>>

\* insert_data(conn, "Buses", sample_buses)
populate_insert_buses ==
    /\ pc = "pop_Buses"
    /\ db' = insert_data(db, "Buses", sample_buses, <<>>)
    /\ pc' = "pop_mapping"
    /\ UNCHANGED <<tables, edits, bus_name_to_id, psa_vars>>

\* bus_name_to_id = get_bus_name_to_id_mapping(conn)
populate_get_mapping ==
    /\ pc = "pop_mapping"
    /\ bus_name_to_id' = get_bus_name_to_id_mapping(db)
    /\ pc' = "pop_Lines"
    /\ UNCHANGED <<tables, db, edits, psa_vars>>

\* insert_data(conn, <kind>, sample_<kind>, bus_name_to_id), kind by kind
populate_insert(k) ==
    /\ pc = "pop_" \o PopulateOrder[k]
    /\ db' = insert_data(db, PopulateOrder[k], sample_data(PopulateOrder[k]), bus_name_to_id)
    /\ pc' = IF k < Len(PopulateOrder) THEN "pop_" \o PopulateOrder[k + 1] ELSE "pop_close"
    /\ UNCHANGED <<tables, edits, bus_name_to_id, psa_vars>>

\* conn.close(); print("... populated successfully!")
populate_close ==
    /\ pc = "pop_close"
    /\ pc' = "idle"
    /\ bus_name_to_id' = <<>>
    /\ UNCHANGED <<tables, db, edits, psa_vars>>

populate_main ==
    \/ populate_create_connection
    \/ create_tables
    \/ populate_insert_buses
    \/ populate_get_mapping
    \/ \E k \in 1..Len(PopulateOrder) : populate_insert(k)
    \/ populate_close

-----------------------------------------------------------------------------
(* Writes by other clients of the store.  The schema (create_tables) is    *)
(* what constrains them: names are unique, CHECKs hold, and the FOREIGN    *)
(* KEY clauses are not enforced because no connection sets                 *)
(* PRAGMA foreign_keys, so a bus id that no Buses row has is admitted.     *)

TapValues == {120}
PhaseValues == {-90, -45, 45, 60}
VSetValues == {94, 95, 105, 110}
QNomValues == {50}
VNomValues == {100}
ROhmValues == {100}
XOhmValues == {0}
LengthValues == {0}
ControlValues == {"PQ", "Slack"}

\* a bus id no Buses row carries
AbsentBusId == NextId(db.Buses)

\* the bus-reference columns of each dependent table
RefColumns(t) ==
    IF t \in {"Lines", "Transformers", "HVDC_Links"}
    THEN {"from_bus_id", "to_bus_id"}
    ELSE {"bus_id"}

DependentTables == TableNames \ {"Buses"}

NewGeneratorRows ==
    {[name |-> nm, bus_id |-> 1, p_nom_mw |-> 100, marginal_cost_eur_per_mwh |-> 30,
      control_type |-> c] :
        nm \in {<<"Solar", "Wind", "Hybrid">>, <<"SVC", "Backup">>,
                <<"SVC", "Industrial", "SVC">>},
        c \in ControlValues}

NewSVCRows ==
    {[name |-> <<"Solar", "Park", "SVC">>, bus_id |-> 4, q_nom_mvar |-> 100,
      q_min_mvar |-> -100, q_max_mvar |-> 100, v_set_pu |-> 102]}

\* the rows of table t that other clients rewrite
EditableRows(t) == {i \in 1..Len(db[t]) : i <= MaxEditRow}

\* UPDATE <t> SET <col> = <v> WHERE id = <i>
Update(t, i, col, v) == [db EXCEPT ![t][i][col] = v]

EditStore(store) ==
    /\ pc = "idle"
    /\ tables
    /\ edits < MaxEdits
    /\ store # db
    /\ db' = store
    /\ edits' = edits + 1
    /\ UNCHANGED <<tables, pc, bus_name_to_id, psa_vars>>

edit_transformer ==
    \E i \in EditableRows("Transformers") :
        \/ \E v \in TapValues : EditStore(Update("Transformers", i, "tap_ratio", v))
        \/ \E v \in PhaseValues : EditStore(Update("Transformers", i, "phase_shift", v))

edit_svc ==
    \E i \in EditableRows("SVCs") :
        \/ \E v \in QNomValues : EditStore(Update("SVCs", i, "q_nom_mvar", v))
        \/ \E v \in VSetValues : EditStore(Update("SVCs", i, "v_set_pu", v))

edit_bus ==
    \E i \in EditableRows("Buses"), v \in VNomValues :
        EditStore(Update("Buses", i, "v_nom_kv", v))

edit_line ==
    \E i \in EditableRows("Lines") :
        \/ \E v \in LengthValues : EditStore(Update("Lines", i, "length_km", v))
        \/ \E v \in ROhmValues : EditStore(Update("Lines", i, "r_ohm_per_km", v))
        \/ \E v \in XOhmValues : EditStore(Update("Lines", i, "x_ohm_per_km", v))

\* the last row of a dependent table is pointed at a bus that does not exist
edit_reference ==
    \E t \in DependentTables :
        \E col \in RefColumns(t) :
            /\ db[t] # <<>>
            /\ EditStore(Update(t, Len(db[t]), col, AbsentBusId))

edit_generator_control ==
    \E i \in EditableRows("Generators"), c \in ControlValues :
        EditStore(Update("Generators", i, "control_type", c))

insert_generator ==
    \E row \in NewGeneratorRows : EditStore(InsertOrIgnore(db, "Generators", row))

insert_svc ==
    \E row \in NewSVCRows : EditStore(InsertOrIgnore(db, "SVCs", row))

other_client ==
    \/ edit_transformer
    \/ edit_svc
    \/ edit_bus
    \/ edit_line
    \/ edit_reference
    \/ edit_generator_control
    \/ insert_generator
    \/ insert_svc


-----------------------------------------------------------------------------
(* PSA.py: load_network_from_db *)

\* n = pypsa.Network(): no component of any kind
EmptyNetwork ==
    [buses |-> <<>>, lines |-> <<>>, transformers |-> <<>>, generators |-> <<>>,
     loads |-> <<>>, storage_units |-> <<>>, links |-> <<>>]

\* the component list of the network that each table is loaded into
ListOf(t) ==
    CASE t = "Buses" -> "buses"
      [] t = "Lines" -> "lines"
      [] t = "Transformers" -> "transformers"
      [] t = "Generators" -> "generators"
      [] t = "Loads" -> "loads"
      [] t = "StorageUnits" -> "storage_units"
      [] t = "HVDC_Links" -> "links"
      [] t = "SVCs" -> "generators"

\* n.add(class, name, **kwargs): the component joins the end of its list; a
\* name the list already holds is reported and the component is left out
add(comps, c) ==
    IF \E i \in 1..Len(comps) : comps[i].name = c.name THEN comps ELSE Append(comps, c)

\* bus_id_to_name[...] finds every bus id of the row
Resolves(t, row, map) ==
    IF t = "Buses" THEN TRUE
    ELSE \A col \in RefColumns(t) : row[col] \in DOMAIN map

\* a per-kilometre value left as it is (the conversion forgotten)
per_km_unconverted(per_km, length_km) == per_km

\* r=r_ohm * length, x=x_ohm * length
absolute_impedance(per_km, length_km) == per_km * length_km

\* a transformer left at the impedance n.add gives when none is passed
transformer_impedance_default(row) == [x |-> 0, r |-> 0]

\* x=0.1, r=0.01: the same for every Transformers row
transformer_impedance(row) == [x |-> 10, r |-> 1]

\* the keyword arguments of n.add for one row, with the defaults of the
\* columns the analysis reads later (bus v_mag_pu_set 1.0; p_set, q_set 0)
Component(t, row, map) ==
    CASE t = "Buses" ->
            [name |-> row.name, v_nom |-> row.v_nom_kv, type |-> row.type,
             x |-> row.x_coord, y |-> row.y_coord, v_mag_pu_set |-> 100]
      [] t = "Lines" ->
            [name |-> row.name, bus0 |-> map[row.from_bus_id], bus1 |-> map[row.to_bus_id],
             length |-> row.length_km,
             r |-> absolute_impedance(row.r_ohm_per_km, row.length_km),
             x |-> absolute_impedance(row.x_ohm_per_km, row.length_km),
             s_nom |-> row.s_nom_mva]
      [] t = "Transformers" ->
            [name |-> row.name, bus0 |-> map[row.from_bus_id], bus1 |-> map[row.to_bus_id],
             s_nom |-> row.s_nom_mva, tap_ratio |-> row.tap_ratio,
             phase_shift |-> row.phase_shift, model |-> "t",
             x |-> transformer_impedance(row).x, r |-> transformer_impedance(row).r]
      [] t = "Generators" ->
            [name |-> row.name, bus |-> map[row.bus_id], p_nom |-> row.p_nom_mw,
             marginal_cost |-> row.marginal_cost_eur_per_mwh, control |-> row.control_type,
             q_nom |-> NaN, q_min |-> NaN, q_max |-> NaN, v_set |-> NaN,
             v_mag_pu_set |-> NaN, p_set |-> 0, q_set |-> 0]
      [] t = "Loads" ->
            [name |-> row.name, bus |-> map[row.bus_id], p_set |-> row.p_set_mw,
             q_set |-> row.q_set_mvar]
      [] t = "StorageUnits" ->
            [name |-> row.name, bus |-> map[row.bus_id], p_nom |-> row.p_nom_mw,
             max_hours |-> row.max_hours, efficiency_store |-> row.efficiency_store,
             efficiency_dispatch |-> row.efficiency_dispatch,
             cyclic_state_of_charge |-> row.cyclic_soc, p_set |-> 0]
      [] t = "HVDC_Links" ->
            [name |-> row.name, bus0 |-> map[row.from_bus_id], bus1 |-> map[row.to_bus_id],
             p_nom |-> row.p_nom_mw, efficiency |-> row.efficiency,
             p_min_pu |-> row.p_min_pu, p_max_pu |-> row.p_max_pu, p_set |-> 0]
      [] t = "SVCs" ->
            [name |-> SvcName(row.name), bus |-> map[row.bus_id], p_nom |-> 0,
             marginal_cost |-> 0, control |-> "PV",
             q_nom |-> Num(row.q_nom_mvar), q_min |-> Num(row.q_min_mvar),
             q_max |-> Num(row.q_max_mvar), v_set |-> Num(row.v_set_pu),
             v_mag_pu_set |-> NaN, p_set |-> 0, q_set |-> 0]

\* a loader that leaves out a row whose bus id it cannot resolve
RECURSIVE load_rows_skipping(_, _, _, _)
load_rows_skipping(t, rows, map, comps) ==
    IF rows = <<>> THEN [ok |-> TRUE, comps |-> comps]
    ELSE load_rows_skipping(t, Tail(rows), map,
            IF Resolves(t, Head(rows), map)
            THEN add(comps, Component(t, Head(rows), map)) ELSE comps)

\* one "for ... in c.fetchall(): n.add(...)" loop: the rows in rowid order;
\* the first row with a bus id missing from the mapping raises KeyError
RECURSIVE load_rows(_, _, _, _)
load_rows(t, rows, map, comps) ==
    IF rows = <<>> THEN [ok |-> TRUE, comps |-> comps]
    ELSE IF ~Resolves(t, Head(rows), map) THEN [ok |-> FALSE, comps |-> comps]
    ELSE load_rows(t, Tail(rows), map, add(comps, Component(t, Head(rows), map)))

\* bus_id_to_name[bus_id] = name, for every Buses row
bus_mapping(rows) ==
    [id \in {rows[i].id : i \in 1..Len(rows)} |->
        rows[CHOOSE i \in 1..Len(rows) : rows[i].id = id].name]

\* the tables in the order the loader reads them
LoadOrder == <<"Buses", "Lines", "Transformers", "Generators", "Loads",
               "StorageUnits", "HVDC_Links", "SVCs">>

\* one loop of load_network_from_db; the last one is followed by "return n"
load_network_from_db(k) ==
    LET t == LoadOrder[k]
        map == IF t = "Buses" THEN bus_mapping(db.Buses) ELSE bus_id_to_name
        res == load_rows(t, db[t], map, net[ListOf(t)])
    IN  /\ pc = "load_" \o t
        /\ bus_id_to_name' = map
        /\ IF res.ok
           THEN /\ net' = [net EXCEPT ![ListOf(t)] = res.comps]
                /\ err' = "none"
                /\ IF k < Len(LoadOrder)
                   THEN pc' = "load_" \o LoadOrder[k + 1] /\ n' = n
                   ELSE pc' = "psa_close" /\ n' = net'
           ELSE /\ net' = [net EXCEPT ![ListOf(t)] = res.comps]
                /\ err' = "KeyError"
                /\ pc' = "raised"
                /\ n' = n
        /\ UNCHANGED <<tables, db, edits, bus_name_to_id, conn, issues, solves, extracted>>

-----------------------------------------------------------------------------
(* PSA.py: main, up to the validation *)

\* conn = create_connection(DB_NAME); if conn: ... else: print("... failed.")
create_connection ==
    /\ pc = "idle"
    /\ tables
    /\ \/ conn' = "open" /\ pc' = "load_Buses" /\ net' = EmptyNetwork
       \/ conn' = "none" /\ pc' = "psa_end" /\ net' = net
    /\ UNCHANGED <<tables, db, edits, bus_name_to_id, bus_id_to_name, n,
                   issues, err, solves, extracted>>

\* conn.close(); print("Loaded network from database!")
close_connection ==
    /\ pc = "psa_close"
    /\ conn' = "closed"
    /\ pc' = "validate"
    /\ UNCHANGED <<tables, db, edits, bus_name_to_id, bus_id_to_name, net, n,
                   issues, err, solves, extracted>>

-----------------------------------------------------------------------------
(* PSA.py: validate_network_parameters *)

StandardVoltages == {11, 33, 66, 110, 132, 220, 275, 400}

\* issues.append((f"Transformer {transformer}", f"..."))
Issue(kind, name, text, values) == << <<kind, name>>, <<text>> \o values >>

\* the transformer checks with the phase magnitude taken without abs()
transformer_issues_no_abs(t) ==
    (IF t.x < 1 \/ t.x > 20
     THEN <<Issue("Transformer", t.name, "Unusual reactance value", <<t.x>>)>> ELSE <<>>)
    \o (IF t.r > 10
        THEN <<Issue("Transformer", t.name, "High resistance value", <<t.r>>)>> ELSE <<>>)
    \o (IF t.tap_ratio < 90 \/ t.tap_ratio > 110
        THEN <<Issue("Transformer", t.name, "Unusual tap ratio", <<t.tap_ratio>>)>> ELSE <<>>)
    \o (IF t.phase_shift > 60 \/ t.phase_shift % 30 # 0
        THEN <<Issue("Transformer", t.name, "Unusual phase shift", <<t.phase_shift>>)>> ELSE <<>>)

\* the body of "for transformer in n.transformers.index"
transformer_issues(t) ==
    (IF t.x < 1 \/ t.x > 20
     THEN <<Issue("Transformer", t.name, "Unusual reactance value", <<t.x>>)>> ELSE <<>>)
    \o (IF t.r > 10
        THEN <<Issue("Transformer", t.name, "High resistance value", <<t.r>>)>> ELSE <<>>)
    \o (IF t.tap_ratio < 90 \/ t.tap_ratio > 110
        THEN <<Issue("Transformer", t.name, "Unusual tap ratio", <<t.tap_ratio>>)>> ELSE <<>>)
    \o (IF Abs(t.phase_shift) > 60 \/ t.phase_shift % 30 # 0
        THEN <<Issue("Transformer", t.name, "Unusual phase shift", <<t.phase_shift>>)>> ELSE <<>>)

\* the compensator checks with the bounds of the voltage range excluded
svc_issues_exclusive(g) ==
    (IF FGt(FAbs(FSub(g.q_max, g.q_min)), FMul(2, FAbs(g.q_nom)))
     THEN <<Issue("SVC", g.name, "Reactive power range", <<g.q_min, g.q_max, g.q_nom>>)>> ELSE <<>>)
    \o (IF ~FGt(g.v_set, Num(95)) \/ ~FLt(g.v_set, Num(105))
        THEN <<Issue("SVC", g.name, "Unusual voltage setpoint", <<g.v_set>>)>> ELSE <<>>)

\* the body of "for svc in svc_gens"
svc_issues(g) ==
    (IF FGt(FAbs(FSub(g.q_max, g.q_min)), FMul(2, FAbs(g.q_nom)))
     THEN <<Issue("SVC", g.name, "Reactive power range", <<g.q_min, g.q_max, g.q_nom>>)>> ELSE <<>>)
    \o (IF FLt(g.v_set, Num(95)) \/ FGt(g.v_set, Num(105))
        THEN <<Issue("SVC", g.name, "Unusual voltage setpoint", <<g.v_set>>)>> ELSE <<>>)

\* the body of "for bus in n.buses.index"
bus_issues(b) ==
    IF b.v_nom \notin StandardVoltages
    THEN <<Issue("Bus", b.name, "Unusual nominal voltage", <<b.v_nom>>)>> ELSE <<>>

\* the line checks stopping at the first finding (elif instead of if)
line_issues_first_only(l) ==
    IF l.r > 0 /\ l.x > 0 /\ (l.r > 2 * l.x \/ 10 * l.r < l.x)
    THEN <<Issue("Line", l.name, "Unusual R/X ratio", <<l.r, l.x>>)>>
    ELSE IF l.length > 0 /\ l.r * l.r + l.x * l.x > (100 * l.length) * (100 * l.length)
    THEN <<Issue("Line", l.name, "High impedance per km", <<l.r, l.x, l.length>>)>>
    ELSE <<>>

\* the body of "for line in n.lines.index"; r/x against 2 and 0.1, and
\* sqrt(r^2 + x^2)/length against 1.0, compared without the division
line_issues(l) ==
    (IF l.r > 0 /\ l.x > 0 /\ (l.r > 2 * l.x \/ 10 * l.r < l.x)
     THEN <<Issue("Line", l.name, "Unusual R/X ratio", <<l.r, l.x>>)>> ELSE <<>>)
    \o (IF l.length > 0 /\ l.r * l.r + l.x * l.x > (100 * l.length) * (100 * l.length)
        THEN <<Issue("Line", l.name, "High impedance per km", <<l.r, l.x, l.length>>)>> ELSE <<>>)

component_issues(kind, c) ==
    CASE kind = "Transformer" -> transformer_issues(c)
      [] kind = "SVC" -> svc_issues(c)
      [] kind = "Bus" -> bus_issues(c)
      [] kind = "Line" -> line_issues(c)

\* one "for" loop of the validation: the findings of each component in turn
RECURSIVE collect_issues(_, _)
collect_issues(kind, comps) ==
    IF comps = <<>> THEN <<>>
    ELSE component_issues(kind, Head(comps)) \o collect_issues(kind, Tail(comps))

\* svc_gens = [g for g in n.generators.index if g.startswith('SVC_')]
svc_gens(g) == SelectSeq(g.generators, LAMBDA c : StartsWithSVC(c.name))

\* validate_network_parameters(n): the list it returns
validate_network_parameters(g) ==
    collect_issues("Transformer", g.transformers)
    \o collect_issues("SVC", svc_gens(g))
    \o collect_issues("Bus", g.buses)
    \o collect_issues("Line", g.lines)

-----------------------------------------------------------------------------
(* PSA.py: main, the operating-point initialisation *)

\* n.buses.loc[bus_name, "v_mag_pu_set"] = 1.0, for every bus
init_buses(g) ==
    [g EXCEPT !.buses = [i \in 1..Len(@) |-> [@[i] EXCEPT !.v_mag_pu_set = 100]]]

\* n.generators[n.generators.control == "Slack"].index: positions, in order
slack_positions(g) == {i \in 1..Len(g.generators) : g.generators[i].control = "Slack"}

\* .index[-1]
last_of(S) == CHOOSE i \in S : \A j \in S : i >= j

\* .index[0]
first_of(S) == CHOOSE i \in S : \A j \in S : i <= j

\* slack_gen gets v_mag_pu_set 1.02 and p_set 200.0
init_slack(g) ==
    [g EXCEPT !.generators[first_of(slack_positions(g))] =
        [@ EXCEPT !.v_mag_pu_set = Num(102), !.p_set = 200]]

\* the PQ generators named after a technology get a seed
init_pq(g) ==
    [g EXCEPT !.generators = [i \in 1..Len(@) |->
        IF @[i].control = "PQ" /\ Contains(@[i].name, "Solar") THEN [@[i] EXCEPT !.p_set = 40]
        ELSE IF @[i].control = "PQ" /\ Contains(@[i].name, "Wind") THEN [@[i] EXCEPT !.p_set = 60]
        ELSE @[i]]]

\* a re-classification that also takes the reactive limits to zero
init_svc_clearing_limits(g) ==
    [g EXCEPT !.generators = [i \in 1..Len(@) |->
        IF StartsWithSVC(@[i].name)
        THEN [@[i] EXCEPT !.control = "PQ", !.q_set = 0, !.q_min = Num(0), !.q_max = Num(0)]
        ELSE @[i]]]

\* every generator named SVC_... becomes PQ with q_set 0.0
init_svc(g) ==
    [g EXCEPT !.generators = [i \in 1..Len(@) |->
        IF StartsWithSVC(@[i].name) THEN [@[i] EXCEPT !.control = "PQ", !.q_set = 0]
        ELSE @[i]]]

\* n.storage_units.loc[storage, "p_set"] = 0.0, for every storage unit
init_storage(g) ==
    [g EXCEPT !.storage_units = [i \in 1..Len(@) |-> [@[i] EXCEPT !.p_set = 0]]]

\* an initialisation that leaves the link set-points as it finds them
init_links_untouched(g) == g

\* n.links.loc[link, "p_set"] = 0.0, for every link
init_links(g) ==
    [g EXCEPT !.links = [i \in 1..Len(@) |-> [@[i] EXCEPT !.p_set = 0]]]

InitOrder == <<"init_buses", "init_slack", "init_pq", "init_svc", "init_storage", "init_links">>

\* the statement group of the initialisation at position k, applied to g
init_step(k, g) ==
    CASE InitOrder[k] = "init_buses" -> init_buses(g)
      [] InitOrder[k] = "init_slack" -> init_slack(g)
      [] InitOrder[k] = "init_pq" -> init_pq(g)
      [] InitOrder[k] = "init_svc" -> init_svc(g)
      [] InitOrder[k] = "init_storage" -> init_storage(g)
      [] InitOrder[k] = "init_links" -> init_links(g)

\* .index[0] of an empty index raises IndexError
init_raises(k, g) == InitOrder[k] = "init_slack" /\ slack_positions(g) = {}

-----------------------------------------------------------------------------
(* PSA.py: main, from the validation on (the body of the try block) *)

main_frame == <<tables, db, edits, bus_name_to_id, conn, bus_id_to_name, net>>

\* a validation that also pulls every tap ratio it reports back to 1.0
validate_repairing ==
    /\ pc = "validate"
    /\ issues' = validate_network_parameters(n)
    /\ n' = [n EXCEPT !.transformers = [i \in 1..Len(@) |->
                IF @[i].tap_ratio < 90 \/ @[i].tap_ratio > 110
                THEN [@[i] EXCEPT !.tap_ratio = 100] ELSE @[i]]]
    /\ pc' = IF issues' # <<>> THEN "prompt" ELSE InitOrder[1]
    /\ UNCHANGED <<main_frame, err, solves, extracted>>

\* issues = validate_network_parameters(n); if issues: print them and ask
validate ==
    /\ pc = "validate"
    /\ issues' = validate_network_parameters(n)
    /\ pc' = IF issues' # <<>> THEN "prompt" ELSE InitOrder[1]
    /\ UNCHANGED <<main_frame, n, err, solves, extracted>>

\* user_input = input(...); anything but y/Y cancels the analysis
prompt ==
    /\ pc = "prompt"
    /\ \/ pc' = InitOrder[1]
       \/ pc' = "psa_end"
    /\ UNCHANGED <<main_frame, n, issues, err, solves, extracted>>

\* an initialisation that goes on without a slack generator
initialize_without_slack(k) ==
    /\ pc = InitOrder[k]
    /\ n' = IF init_raises(k, n) THEN n ELSE init_step(k, n)
    /\ pc' = IF k < Len(InitOrder) THEN InitOrder[k + 1] ELSE "solve"
    /\ UNCHANGED <<main_frame, issues, err, solves, extracted>>

\* one statement group of the initialisation
initialize(k) ==
    /\ pc = InitOrder[k]
    /\ IF init_raises(k, n)
       THEN /\ err' = "IndexError"
            /\ pc' = "except"
            /\ n' = n
       ELSE /\ n' = init_step(k, n)
            /\ pc' = IF k < Len(InitOrder) THEN InitOrder[k + 1] ELSE "solve"
            /\ err' = err
    /\ UNCHANGED <<main_frame, issues, solves, extracted>>

\* n.pf(): the external solver returns or raises
solve ==
    /\ pc = "solve"
    /\ solves' = solves + 1
    /\ \/ pc' = "extract" /\ err' = err
       \/ pc' = "except" /\ err' = "SolverError"
    /\ UNCHANGED <<main_frame, n, issues, extracted>>

\* the printing and plotting of the results
extract ==
    /\ pc = "extract"
    /\ extracted' = TRUE
    /\ pc' = "psa_end"
    /\ UNCHANGED <<main_frame, n, issues, err, solves>>

\* an except clause that reports the error and returns
except_swallowing ==
    /\ pc = "except"
    /\ pc' = "psa_end"
    /\ UNCHANGED <<main_frame, n, issues, err, solves, extracted>>

\* except Exception as e: print(f"Analysis Error: {e}"); raise
except ==
    /\ pc = "except"
    /\ pc' = "raised"
    /\ UNCHANGED <<main_frame, n, issues, err, solves, extracted>>

main ==
    \/ create_connection
    \/ \E k \in 1..Len(LoadOrder) : load_network_from_db(k)
    \/ close_connection
    \/ validate
    \/ prompt
    \/ \E k \in 1..Len(InitOrder) : initialize(k)
    \/ solve
    \/ extract
    \/ except

-----------------------------------------------------------------------------

Next == populate_main \/ other_client \/ main

Spec == Init /\ [][Next]_vars

-----------------------------------------------------------------------------
(* Vocabulary of the properties *)

\* the whole initialisation applied to a graph that has a Slack generator
RECURSIVE init_from(_, _)
init_from(k, g) ==
    IF k > Len(InitOrder) THEN g ELSE init_from(k + 1, init_step(k, g))

\* whether the initialisation raises on g: only its slack step can, and the
\* step before it leaves the generators alone
init_fails(g) == slack_positions(g) = {}

Column(comps, col) == [i \in 1..Len(comps) |-> comps[i][col]]

\* the set-points the initialisation writes
set_points(g) ==
    [bus_v |-> Column(g.buses, "v_mag_pu_set"),
     gen_v |-> Column(g.generators, "v_mag_pu_set"),
     gen_p |-> Column(g.generators, "p_set"),
     gen_q |-> Column(g.generators, "q_set"),
     gen_control |-> Column(g.generators, "control"),
     storage_p |-> Column(g.storage_units, "p_set"),
     link_p |-> Column(g.links, "p_set")]

BusIds == {db.Buses[i].id : i \in 1..Len(db.Buses)}

\* some dependent row carries a bus id that no Buses row has
HasDanglingReference ==
    \E t \in DependentTables : \E i \in 1..Len(db[t]) :
        \E col \in RefColumns(t) : db[t][i][col] \notin BusIds

BusNames(g) == {g.buses[i].name : i \in 1..Len(g.buses)}

EndNames(comps, cols) == {comps[i][c] : i \in 1..Len(comps), c \in cols}

\* every bus a component of g names is a bus of g
ReferencesResolve(g) ==
    /\ EndNames(g.lines, {"bus0", "bus1"}) \subseteq BusNames(g)
    /\ EndNames(g.transformers, {"bus0", "bus1"}) \subseteq BusNames(g)
    /\ EndNames(g.links, {"bus0", "bus1"}) \subseteq BusNames(g)
    /\ EndNames(g.generators, {"bus"}) \subseteq BusNames(g)
    /\ EndNames(g.loads, {"bus"}) \subseteq BusNames(g)
    /\ EndNames(g.storage_units, {"bus"}) \subseteq BusNames(g)

\* positions of the analysis run
LoadPcs == {"load_" \o LoadOrder[k] : k \in 1..Len(LoadOrder)}
InitPcs == {InitOrder[k] : k \in 1..Len(InitOrder)}

\* the loader has been called and has returned or raised
LoaderEnded == conn # "none" /\ pc \notin LoadPcs /\ pc # "idle"
LoaderReturned == n # Unbound
LoaderRaised == LoaderEnded /\ n = Unbound

\* validation has returned and no later statement has run yet
Validated == pc \in {"prompt", InitOrder[1]}

\* the initialisation has run to its end
Initialized == pc = "solve" \/ solves > 0

\* the run is over
RunEnded == pc \in {"psa_end", "raised"}

\* the findings of one component, in the order validation returned them
FindingsOf(kind, name) == SelectSeq(issues, LAMBDA f : f[1] = <<kind, name>>)

\* those of them that carry a given text
FindingsWith(kind, name, text) ==
    SelectSeq(issues, LAMBDA f : f[1] = <<kind, name>> /\ f[2][1] = text)

Count(b) == IF b THEN 1 ELSE 0

-----------------------------------------------------------------------------
(* C1: loading has two outcomes.  Either it returns a graph, and then no   *)
(* dependent row of the store carries a bus id absent from Buses and every *)
(* bus named by a line, transformer, generator (compensators included),    *)
(* load, storage unit or link of the graph is a bus of the graph; or some  *)
(* dependent row carries an absent bus id, and then the loader raises (the *)
(* KeyError of the bus_id_to_name lookup is the referential-integrity      *)
(* error) and main never gets a graph.  A row is never left out instead.   *)
C1_LoadResolvesOrFails ==
    /\ LoaderReturned => ~HasDanglingReference /\ ReferencesResolve(n)
    /\ LoaderRaised => HasDanglingReference /\ pc = "raised" /\ err = "KeyError"
    /\ LoaderEnded /\ HasDanglingReference => LoaderRaised

\* a run whose loader met a dangling reference and raised
C1_Witness == LoaderRaised /\ HasDanglingReference /\ err = "KeyError"

(* C2: the initialisation is idempotent.  Once it has run on a loaded      *)
(* graph with a Slack generator, running its steps again succeeds and      *)
(* leaves every set-point as the first run left it.                        *)
C2_InitIdempotent ==
    pc = "solve" =>
        /\ ~init_fails(n)
        /\ set_points(init_from(1, n)) = set_points(n)

(* C3: when the loaded graph has no Slack generator the initialisation     *)
(* fails (the IndexError of .index[0] is the missing-slack error): the run *)
(* never gets past the slack step, it ends raised unless the user          *)
(* cancelled it at the prompt, and the solver is never called.             *)
C3_NoSlackFails ==
    LoaderReturned /\ slack_positions(net) = {} =>
        /\ solves = 0
        /\ pc \notin (InitPcs \ {"init_buses", "init_slack"}) \cup {"solve", "extract"}
        /\ pc \in {"except", "raised"} => err = "IndexError"
        /\ pc = "psa_end" => issues # <<>> /\ ~extracted

\* a run on a graph without Slack generator that ended with the error
C3_Witness ==
    /\ LoaderReturned /\ slack_positions(net) = {}
    /\ pc = "raised" /\ err = "IndexError" /\ solves = 0

(* C4: validation is pure.  When it has returned, the graph is field for   *)
(* field the graph the loader returned, and validating the graph again     *)
(* gives the findings the first call gave.                                 *)
C4_ValidationPure ==
    Validated => n = net /\ validate_network_parameters(n) = issues

\* validation has returned findings
C4_Witness == Validated /\ issues # <<>>

-----------------------------------------------------------------------------
(* The rules of the validation, as the specification words them *)

IsMultipleOf30(p) == \E k \in -12..12 : p = 30 * k

TransformerViolations(t) ==
    Count(~(1 <= t.x /\ t.x <= 20)) + Count(~(t.r < 10))
    + Count(~(90 <= t.tap_ratio /\ t.tap_ratio <= 110))
    + Count(Abs(t.phase_shift) > 60 \/ ~IsMultipleOf30(t.phase_shift))

\* a generator entry that carries the ratings of a compensator row
HasRatings(g) == g.q_nom # NaN /\ g.q_min # NaN /\ g.q_max # NaN /\ g.v_set # NaN

RangeTooWide(g) == Abs(g.q_max[1] - g.q_min[1]) > 2 * Abs(g.q_nom[1])
VSetOutside(g) == ~(95 <= g.v_set[1] /\ g.v_set[1] <= 105)

CompensatorViolations(g) ==
    IF HasRatings(g) THEN Count(RangeTooWide(g)) + Count(VSetOutside(g)) ELSE 0

BusViolations(b) == Count(b.v_nom \notin {11, 33, 66, 110, 132, 220, 275, 400})

LineViolations(l) ==
    Count(l.r > 0 /\ l.x > 0 /\ ~(l.r <= 2 * l.x /\ l.x <= 10 * l.r))
    + Count(l.length > 0 /\ l.r * l.r + l.x * l.x > 10000 * l.length * l.length)

KindRank(kind) ==
    CASE kind = "Transformer" -> 1 [] kind = "SVC" -> 2 [] kind = "Bus" -> 3 [] kind = "Line" -> 4

RuleRank(text) ==
    CASE text = "Unusual reactance value" -> 1
      [] text = "High resistance value" -> 2
      [] text = "Unusual tap ratio" -> 3
      [] text = "Unusual phase shift" -> 4
      [] text = "Reactive power range" -> 1
      [] text = "Unusual voltage setpoint" -> 2
      [] text = "Unusual nominal voltage" -> 1
      [] text = "Unusual R/X ratio" -> 1
      [] text = "High impedance per km" -> 2

(* C5: validation evaluates every rule on every component.  A component    *)
(* contributes as many findings as it violates rules of its kind (none     *)
(* when it violates none), the findings add up to the violations of the    *)
(* graph, they come transformers first, then compensators, buses and       *)
(* lines, and the findings of one component come in rule order.            *)
C5_ValidationExhaustive ==
    Validated =>
        /\ \A i \in 1..Len(n.transformers) :
              Len(FindingsOf("Transformer", n.transformers[i].name))
                  = TransformerViolations(n.transformers[i])
        /\ \A i \in 1..Len(n.generators) :
              Len(FindingsOf("SVC", n.generators[i].name))
                  = IF StartsWithSVC(n.generators[i].name)
                    THEN CompensatorViolations(n.generators[i]) ELSE 0
        /\ \A i \in 1..Len(n.buses) :
              Len(FindingsOf("Bus", n.buses[i].name)) = BusViolations(n.buses[i])
        /\ \A i \in 1..Len(n.lines) :
              Len(FindingsOf("Line", n.lines[i].name)) = LineViolations(n.lines[i])
        /\ \A i \in 1..Len(issues) : \A j \in 1..Len(issues) :
              i < j =>
                /\ KindRank(issues[i][1][1]) <= KindRank(issues[j][1][1])
                /\ issues[i][1] = issues[j][1]
                      => RuleRank(issues[i][2][1]) < RuleRank(issues[j][2][1])

\* a line violates two rules and has its two findings, after the finding of
\* a component of an earlier kind, in a graph with lines that have none
C5_Witness ==
    /\ Validated
    /\ \E i \in 1..Len(n.lines) :
          LineViolations(n.lines[i]) = 2 /\ Len(FindingsOf("Line", n.lines[i].name)) = 2
    /\ \E i \in 1..Len(n.lines) :
          LineViolations(n.lines[i]) = 0 /\ FindingsOf("Line", n.lines[i].name) = <<>>
    /\ Len(issues) = 3
    /\ issues[1][1][1] # "Line"

(* C6: a transformer gets exactly one phase-shift finding when its phase   *)
(* shift exceeds 60 degrees in magnitude or is no multiple of 30, positive *)
(* or negative, and none otherwise.  With tap ratio 1.0, x 0.1 and r 0.01, *)
(* phase shift 0 gives no finding at all and phase shift 45 exactly one,   *)
(* the phase-shift finding.                                                *)
C6_PhaseShiftFinding ==
    Validated =>
        \A i \in 1..Len(n.transformers) :
            LET t == n.transformers[i]
                all == FindingsOf("Transformer", t.name)
                phase == FindingsWith("Transformer", t.name, "Unusual phase shift")
            IN  /\ Len(phase) = Count(Abs(t.phase_shift) > 60 \/ ~IsMultipleOf30(t.phase_shift))
                /\ t.tap_ratio = 100 /\ t.x = 10 /\ t.r = 1 /\ t.phase_shift = 0 => Len(all) = 0
                /\ t.tap_ratio = 100 /\ t.x = 10 /\ t.r = 1 /\ t.phase_shift = 45
                      => Len(all) = 1 /\ Len(phase) = 1

\* the transformer of the example with phase shift 45 has been validated,
\* next to one whose phase shift is a negative multiple of 30
C6_Witness ==
    /\ Validated
    /\ \E i \in 1..Len(n.transformers) :
          /\ n.transformers[i].tap_ratio = 100 /\ n.transformers[i].phase_shift = 45
          /\ Len(FindingsOf("Transformer", n.transformers[i].name)) = 1
    /\ \E i \in 1..Len(n.transformers) :
          /\ n.transformers[i].phase_shift = -30
          /\ Len(FindingsWith("Transformer", n.transformers[i].name, "Unusual phase shift")) = 0

(* C7: a compensator entry gets a reactive-range finding exactly when      *)
(* |q_max - q_min| exceeds 2 |q_nom| and a voltage-setpoint finding        *)
(* exactly when its voltage set-point is below 0.95 or above 1.05.  With   *)
(* q_nom 100, q_min -100, q_max 100, v_set 1.02 gives no finding and       *)
(* v_set 1.10 exactly one, the voltage-setpoint finding.                   *)
C7_CompensatorFindings ==
    Validated =>
        \A i \in 1..Len(n.generators) :
            LET g == n.generators[i]
                all == FindingsOf("SVC", g.name)
                range == FindingsWith("SVC", g.name, "Reactive power range")
                vset == FindingsWith("SVC", g.name, "Unusual voltage setpoint")
            IN  StartsWithSVC(g.name) /\ HasRatings(g) =>
                    /\ Len(range) = Count(RangeTooWide(g))
                    /\ Len(vset) = Count(g.v_set[1] < 95 \/ g.v_set[1] > 105)
                    /\ g.q_nom = Num(100) /\ g.q_min = Num(-100) /\ g.q_max = Num(100)
                          => /\ g.v_set = Num(102) => Len(all) = 0
                             /\ g.v_set = Num(110) => Len(all) = 1 /\ Len(vset) = 1

\* the compensator of the example with v_set 1.10 has its one finding
C7_Witness ==
    /\ Validated
    /\ \E i \in 1..Len(n.generators) :
          LET g == n.generators[i]
          IN  /\ StartsWithSVC(g.name) /\ HasRatings(g)
              /\ g.q_nom = Num(100) /\ g.q_min = Num(-100) /\ g.q_max = Num(100)
              /\ g.v_set = Num(110)
              /\ Len(FindingsWith("SVC", g.name, "Unusual voltage setpoint")) = 1

(* C8: from the moment the loader returns, through validation and          *)
(* initialisation to the end of the run, the graph holds for every Lines   *)
(* row a line whose resistance and reactance are the row's per-kilometre   *)
(* values multiplied by its length (0.1 and 0.3 ohm/km over 20 km give     *)
(* 2.0 and 6.0 ohm).                                                       *)
C8_LineImpedance ==
    LoaderReturned =>
        /\ Len(n.lines) = Len(db.Lines)
        /\ \A i \in 1..Len(db.Lines) :
              LET row == db.Lines[i]
                  l == n.lines[i]
              IN  /\ l.name = row.name
                  /\ l.length = row.length_km
                  /\ l.r = row.r_ohm_per_km * row.length_km
                  /\ l.x = row.x_ohm_per_km * row.length_km
                  /\ row.r_ohm_per_km = 10 /\ row.x_ohm_per_km = 30 /\ row.length_km = 20
                        => l.r = 200 /\ l.x = 600

\* the initialisation is over and the line of the example is in the graph
C8_Witness ==
    /\ Initialized
    /\ \E i \in 1..Len(n.lines) :
          n.lines[i].length = 20 /\ n.lines[i].r = 200 /\ n.lines[i].x = 600

(* C9: in a loaded graph every SVCs row is one generator entry named       *)
(* SVC_<row name>, and a generator entry has a name starting with SVC_     *)
(* exactly when it was created from an SVCs row, that is when no           *)
(* Generators row has its name.                                            *)
C9_TagMeansCompensator ==
    LoaderReturned =>
        /\ \A i \in 1..Len(db.SVCs) :
              Cardinality({j \in 1..Len(n.generators) :
                  n.generators[j].name = SvcName(db.SVCs[i].name)}) = 1
        /\ \A j \in 1..Len(n.generators) :
              StartsWithSVC(n.generators[j].name)
                  <=> ~NameTaken(db.Generators, n.generators[j].name)

(* C10: after a successful initialisation the first generator, in index    *)
(* order, that the loaded graph has in Slack mode holds voltage target     *)
(* 1.02 and active-power set-point 200.0.                                  *)
C10_SlackSeed ==
    Initialized =>
        \E i \in slack_positions(net) :
            /\ \A j \in slack_positions(net) : i <= j
            /\ n.generators[i].v_mag_pu_set = Num(102)
            /\ n.generators[i].p_set = 200

\* an initialised graph that was loaded with several Slack generators
C10_Witness ==
    /\ Initialized
    /\ Cardinality(slack_positions(net)) >= 2
    /\ \E i \in slack_positions(net) : n.generators[i].v_mag_pu_set = Num(102)

-----------------------------------------------------------------------------
\* values the reset fields are given before the initialisation is applied
PriorValues == {-50, 0, 95, 100}

\* g with every bus voltage target and every storage and link set-point at v
WithPrior(g, v) ==
    [g EXCEPT !.buses = [i \in 1..Len(@) |-> [@[i] EXCEPT !.v_mag_pu_set = v]],
              !.storage_units = [i \in 1..Len(@) |-> [@[i] EXCEPT !.p_set = v]],
              !.links = [i \in 1..Len(@) |-> [@[i] EXCEPT !.p_set = v]]]

\* every bus target is 1.0 and every storage and link set-point 0.0
ResetDone(g) ==
    /\ \A i \in 1..Len(g.buses) : g.buses[i].v_mag_pu_set = 100
    /\ \A i \in 1..Len(g.storage_units) : g.storage_units[i].p_set = 0
    /\ \A i \in 1..Len(g.links) : g.links[i].p_set = 0

(* C11: after a successful initialisation every bus has voltage target 1.0 *)
(* p.u. and every storage unit and every link has active-power set-point   *)
(* 0.0; the initialisation gives the same on the loaded graph with these   *)
(* fields set to any other value first.                                    *)
C11_ResetSetPoints ==
    /\ Initialized => ResetDone(n)
    /\ pc = "solve" => \A v \in PriorValues : ResetDone(init_from(1, WithPrior(net, v)))

\* an initialisation that ran to its end on a graph with buses, storage units
\* and links
C11_Witness ==
    /\ pc = "solve"
    /\ n.buses # <<>> /\ n.storage_units # <<>> /\ n.links # <<>>
    /\ ResetDone(n)

-----------------------------------------------------------------------------
(* C12: the store connection is closed on every exit path of a run.  No    *)
(* run ends with the connection still open, whether the loader returned or *)
(* raised, and the connection is closed by the time the solver is called.  *)
C12_ConnectionClosed ==
    /\ RunEnded => conn # "open"
    /\ pc \in {"solve", "extract", "except"} \/ solves > 0 => conn = "closed"

-----------------------------------------------------------------------------
\* the solver has been called and has raised
SolverFailed == err = "SolverError"

-----------------------------------------------------------------------------
\* the inserts of populate_db.main from position k of PopulateOrder on
RECURSIVE populate_from(_, _, _)
populate_from(k, store, map) ==
    IF k > Len(PopulateOrder) THEN store
    ELSE populate_from(k + 1,
            insert_data(store, PopulateOrder[k], sample_data(PopulateOrder[k]), map), map)

\* every insert of populate_db.main, in its order, applied to a store
populate_all(store) ==
    LET with_buses == insert_data(store, "Buses", sample_buses, <<>>)
    IN  populate_from(1, with_buses, get_bus_name_to_id_mapping(with_buses))

\* every name of the sample data is in its table
Populated(store) ==
    \A t \in TableNames : \A i \in 1..Len(sample_data(t)) :
        NameTaken(store[t], sample_data(t)[i].name)

PopulatePcs == {"pop_Buses", "pop_mapping", "pop_close"}
                   \cup {"pop_" \o PopulateOrder[k] : k \in 1..Len(PopulateOrder)}

\* the row of table t at position i is not the row the sample data would insert
DiffersFromSample(t, i) ==
    /\ i <= Len(db[t])
    /\ db[t][i].name = sample_data(t)[i].name
    /\ db[t][i] # [id |-> db[t][i].id]
                    @@ RowOf(t, sample_data(t)[i], get_bus_name_to_id_mapping(db))

(* C14: population is idempotent.  On a store that holds every name of the *)
(* sample data, as any program finds it when it starts (a first run made,  *)
(* other clients' writes or none after it), every insert of                *)
(* populate_db.main, in its order, leaves                                  *)
(* every table as it is: no step of a further run changes the store, no    *)
(* row is added and no existing row is modified, also when its attributes  *)
(* differ from those of the insert.                                        *)
C14_PopulateIdempotent ==
    /\ [](pc = "idle" /\ tables /\ Populated(db) =>
            /\ populate_all(db) = db
            /\ \A t \in TableNames : \A i \in 1..Len(sample_data(t)) :
                  InsertOrIgnore(db, t, RowOf(t, sample_data(t)[i],
                                              get_bus_name_to_id_mapping(db))) = db)
    /\ [][(pc \in PopulatePcs /\ Populated(db)) => (db' = db)]_vars

\* a further run has made all its inserts on a store in which a row of the
\* sample data had been given other attributes, and the row is as it was
C14_Witness ==
    /\ pc = "pop_close"
    /\ edits > 0
    /\ Populated(db)
    /\ \E t \in TableNames : \E i \in 1..Len(sample_data(t)) : DiffersFromSample(t, i)

-----------------------------------------------------------------------------
\* the generator entry was created from a Generators row (the loader reads
\* Generators before SVCs, and a name once in the graph is not replaced)
FromGeneratorsRow(g) == NameTaken(db.Generators, g.name)

(* C15: after a successful initialisation every generator entry created    *)
(* from a compensator (SVCs) row is in PQ mode with reactive set-point     *)
(* 0.0, whatever mode the loader gave it, and every generator entry        *)
(* created from a Generators row has the control mode the loader gave it.  *)
C15_CompensatorsReclassified ==
    Initialized =>
        \A j \in 1..Len(n.generators) :
            IF FromGeneratorsRow(n.generators[j])
            THEN n.generators[j].control = net.generators[j].control
            ELSE n.generators[j].control = "PQ" /\ n.generators[j].q_set = 0

-----------------------------------------------------------------------------
\* the name carries one of the technology labels the seeding looks for
HasTechnologyLabel(name) == Contains(name, "Solar") \/ Contains(name, "Wind")

(* C16: after a successful initialisation every generator that was loaded  *)
(* in PQ mode and whose name contains Solar or Wind has an active-power    *)
(* set-point of half its own p_nom, whatever that p_nom is, and every      *)
(* generator loaded in PQ mode whose name contains neither has the         *)
(* active-power set-point it was loaded with.                              *)
C16_SeedIsHalfOfRating ==
    Initialized =>
        \A j \in 1..Len(n.generators) :
            net.generators[j].control = "PQ" =>
                IF HasTechnologyLabel(n.generators[j].name)
                THEN 2 * n.generators[j].p_set = n.generators[j].p_nom
                ELSE n.generators[j].p_set = net.generators[j].p_set

-----------------------------------------------------------------------------
\* g with the set-points the initialisation may write blanked out: what is
\* left are the components, in their order, with every other field
immutable_part(g) ==
    [g EXCEPT !.buses = [i \in 1..Len(@) |-> [@[i] EXCEPT !.v_mag_pu_set = 0]],
              !.generators = [i \in 1..Len(@) |->
                  [@[i] EXCEPT !.v_mag_pu_set = NaN, !.p_set = 0, !.q_set = 0,
                               !.control = "PQ"]],
              !.storage_units = [i \in 1..Len(@) |-> [@[i] EXCEPT !.p_set = 0]],
              !.links = [i \in 1..Len(@) |-> [@[i] EXCEPT !.p_set = 0]]]

(* C17: the initialisation changes only set-points.  From the loader's     *)
(* return to the end of the run, at every step of the initialisation, the  *)
(* graph has the components the loader created, in the same order, and     *)
(* each with the loaded value of every field other than the bus voltage    *)
(* target, the generator voltage target, active and reactive set-point and *)
(* control mode, and the storage and link active-power set-point: names,   *)
(* bus references, ratings, reactive limits, impedances, tap ratios and    *)
(* phase shifts are as loaded, and lines, transformers and loads are       *)
(* untouched.                                                              *)
C17_InitFrame ==
    LoaderReturned =>
        /\ immutable_part(n) = immutable_part(net)
        /\ n.lines = net.lines /\ n.transformers = net.transformers /\ n.loads = net.loads

\* an initialisation that ran to its end and changed the control mode of a
\* compensator entry, whose reactive limit is as loaded
C17_Witness ==
    /\ pc = "solve"
    /\ n # net
    /\ \E j \in 1..Len(n.generators) :
          /\ StartsWithSVC(n.generators[j].name)
          /\ n.generators[j].control # net.generators[j].control
          /\ n.generators[j].q_max = net.generators[j].q_max
    /\ immutable_part(n) = immutable_part(net)

-----------------------------------------------------------------------------
\* the findings of the transformers that carry a given text
TransformerFindings(text) ==
    SelectSeq(issues, LAMBDA f : f[1][1] = "Transformer" /\ f[2][1] = text)

(* C18: on every graph the loader returns, every transformer has x = 0.1   *)
(* and r = 0.01 whatever its Transformers row holds, and validation        *)
(* returns no transformer reactance finding and no transformer resistance  *)
(* finding: every finding of a transformer is a tap-ratio or a phase-shift *)
(* finding.                                                                *)
C18_NoImpedanceFindings ==
    /\ LoaderReturned =>
          \A i \in 1..Len(net.transformers) :
              net.transformers[i].x = 10 /\ net.transformers[i].r = 1
    /\ Validated =>
          /\ TransformerFindings("Unusual reactance value") = <<>>
          /\ TransformerFindings("High resistance value") = <<>>
          /\ \A i \in 1..Len(issues) :
                issues[i][1][1] = "Transformer" =>
                    issues[i][2][1] \in {"Unusual tap ratio", "Unusual phase shift"}

\* validation has returned a tap-ratio and a phase-shift finding for
\* transformers whose rows other clients rewrote
C18_Witness ==
    /\ Validated
    /\ edits = MaxEdits
    /\ TransformerFindings("Unusual tap ratio") # <<>>
    /\ TransformerFindings("Unusual phase shift") # <<>>

====
